---------------------------- MODULE Spec2Model ----------------------------
(***************************************************************************)
(* A model of the gmail-mcp server: the AuthManager token refresh guard,   *)
(* the tool handlers, the GmailClient facade (sendEmail, searchEmails,     *)
(* getMessage) and the account registry.                                   *)
(*                                                                         *)
(* Five specifications share the module:                                   *)
(*   Spec          AuthManager.refreshTokenIfNeeded and the tool handlers  *)
(*   SpecSend      GmailClient.sendEmail (message composition, encoding)   *)
(*   SpecSearch    GmailClient.searchEmails (list + concurrent fetches)    *)
(*   SpecRegistry  the account registry and the account selector           *)
(*   SpecFacade    the three facade operations, one invocation at a time   *)
(* Each specification pins the variables of the other parts.               *)
(***************************************************************************)
EXTENDS Integers, Sequences, FiniteSets, TLC

VARIABLES
    \* ---- AuthManager and tool handlers (Spec)
    now,              \* Date.now(), in ticks
    credentials,      \* this.auth.credentials: [access_token, expiry_date]
    stored,           \* the credential record on disk (token.json)
    pc,               \* pc[c]: where caller c's current call stands
    tool,             \* tool[c]: the tool (or "guard") caller c is running
    resp,             \* resp[c]: the token endpoint's answer delivered to c
    thrown,           \* thrown[c]: the error c's call ended with ("none" if none)
    attempts,         \* attempts[c]: refreshAccessToken calls of c's current call
    tokenCalls,       \* refreshAccessToken calls made so far (the endpoint's counter)
    consentLaunches,  \* interactive authenticate() flows launched by the guard
    lastAttemptAt,    \* time of the latest refreshAccessToken call (0: none yet)
    lastCall,         \* the latest call handed to the mail API
    toolResult,       \* toolResult[c]: how c's tool call ended
    \* ---- GmailClient.searchEmails (SpecSearch)
    sPc,              \* where the searchEmails call stands
    listed,           \* res.data.messages of the list call (<<>> when absent)
    results,          \* results[i]: what the i-th map callback resolved to
    done,             \* indices whose callback has resolved
    completionOrder,  \* the indices in the order their fetches completed
    messages,         \* the messages array searchEmails returned
    sThrown,          \* the rejection searchEmails ended with ("none" if none)
    listCalls,        \* messages.list calls issued by the current invocation
    getCalls,         \* ids of the messages.get calls issued, in call order
    \* ---- GmailClient.getMessage called on its own (SpecFacade)
    gPc,              \* where the getMessage call stands
    gId,              \* the messageId getMessage was called with
    gCalls,           \* ids of the messages.get calls issued by the invocation
    gData,            \* res.data, as getMessage returned it
    gThrown,          \* the rejection getMessage ended with ("none" if none)
    \* ---- GmailClient.sendEmail (SpecSend)
    mPc,              \* where the sendEmail call stands
    params,           \* the params object sendEmail was called with
    raw,              \* requestBody.raw handed to messages.send (base64url)
    sendCalls,        \* messages.send calls issued by the current invocation
    mThrown,          \* the rejection sendEmail ended with ("none" if none)
    \* ---- the account registry (SpecRegistry)
    accounts,         \* the registry's entries (AccountInfo), in insertion order
    accountsFile,     \* the entries as last persisted
    rPc,              \* "idle", or "dirty" between a mutation and its write
    rResult,          \* the outcome of the latest registry operation
    selection         \* the latest account selection: its argument and outcome

sendVars == <<mPc, params, raw, sendCalls, mThrown>>

regVars == <<accounts, accountsFile, rPc, rResult, selection>>

searchVars == <<sPc, listed, results, done, completionOrder, messages,
                sThrown, listCalls, getCalls>>

authVars == <<now, credentials, stored, pc, tool, resp, thrown, attempts,
              tokenCalls, consentLaunches, lastAttemptAt, lastCall, toolResult>>

getVars == <<gPc, gId, gCalls, gData, gThrown>>

vars == <<authVars, searchVars, getVars, sendVars, regVars>>

\* What an action of one part leaves alone: the variables of the other parts.
exceptAuth == <<searchVars, getVars, sendVars, regVars>>
exceptSearch == <<authVars, getVars, sendVars, regVars>>
exceptGet == <<authVars, searchVars, sendVars, regVars>>
exceptSend == <<authVars, searchVars, getVars, regVars>>
exceptReg == <<authVars, searchVars, getVars, sendVars>>

--------------------------------------------------------------------------
(* Bounds of the model.                                                    *)

MaxTime == 3          \* the clock runs 1..MaxTime
TokenLifetime == 2    \* expires_in of a token the endpoint issues, in ticks
MaxExchanges == 3     \* cap on refreshAccessToken calls in one behaviour
NumMessages == 3      \* message ids 1..NumMessages exist in the mailbox
MaxList == 3          \* longest id list a messages.list call answers with
MaxSubjectLen == 2    \* longest subject sendEmail is called with
MaxBodyLen == 1       \* longest body sendEmail is called with
MaxRecipients == 2    \* longest to list sendEmail is called with
NumEmails == 3        \* account emails 1..NumEmails can be registered

\* Two concurrent callers (tool invocations in flight on the one account).
Callers == {"c1", "c2"}

\* expiry_date absent (undefined): falsy in `expiry_date && ...`, like 0.
NoExpiry == 0

--------------------------------------------------------------------------
(* AuthManager.refreshTokenIfNeeded                                        *)

\* A condition that refreshes whenever an expiry is recorded, whatever the time.
NeedsRefresh_IgnoresClock(creds, t) == creds.expiry_date # NoExpiry

\* The condition of the if: expiry_date && Date.now() >= expiry_date.
NeedsRefresh(creds, t) ==
    creds.expiry_date # NoExpiry /\ t >= creds.expiry_date

\* What the token endpoint can answer to refreshAccessToken().
TerminalErrors == {"invalid_grant"}
TransientErrors == {"network_error"}
EndpointAnswers == {"ok"} \cup TerminalErrors \cup TransientErrors

\* The credentials a successful exchange returns: a new access token (numbered
\* by the exchange that issued it) expiring TokenLifetime after the answer.
IssuedCredentials(n, t) ==
    [access_token |-> n + 1, expiry_date |-> t + TokenLifetime]

\* refreshTokenIfNeeded up to its first await: the guard is evaluated and, when
\* it holds, refreshAccessToken() is called; otherwise the call returns at once.
refreshTokenIfNeeded(c) ==
    /\ pc[c] = "idle"
    /\ tool' = [tool EXCEPT ![c] = "guard"]
    /\ IF NeedsRefresh(credentials, now)
       THEN /\ tokenCalls < MaxExchanges
            /\ tokenCalls' = tokenCalls + 1
            /\ attempts' = [attempts EXCEPT ![c] = 1]
            /\ lastAttemptAt' = now
            /\ pc' = [pc EXCEPT ![c] = "awaiting"]
       ELSE /\ attempts' = [attempts EXCEPT ![c] = 0]
            /\ pc' = [pc EXCEPT ![c] = "returned"]
            /\ UNCHANGED <<tokenCalls, lastAttemptAt>>
    /\ UNCHANGED <<now, credentials, stored, resp, thrown, consentLaunches,
                   lastCall, toolResult>>
    /\ UNCHANGED exceptAuth

\* The token endpoint answers caller c's exchange.
TokenEndpointAnswers(c, a) ==
    /\ pc[c] = "awaiting"
    /\ resp' = [resp EXCEPT ![c] =
                  [kind |-> a,
                   credentials |-> IF a = "ok"
                                   THEN IssuedCredentials(tokenCalls, now)
                                   ELSE credentials]]
    /\ pc' = [pc EXCEPT ![c] = "resumed"]
    /\ UNCHANGED <<now, credentials, stored, tool, thrown, attempts, tokenCalls,
                   consentLaunches, lastAttemptAt, lastCall, toolResult>>
    /\ UNCHANGED exceptAuth

\* try branch after the await: this.auth.setCredentials(credentials).
\* Nothing is written to disk.
OnRefreshSuccess(c) ==
    /\ credentials' = resp[c].credentials
    /\ pc' = [pc EXCEPT ![c] = "returned"]
    /\ UNCHANGED <<stored, thrown, tokenCalls, attempts, consentLaunches,
                   lastAttemptAt>>

\* The documentation's variant of the catch branch, which swallows the error
\* and re-runs the interactive flow: await this.authenticate().
OnRefreshFailure_Reauthenticate(c) ==
    /\ consentLaunches' = consentLaunches + 1
    /\ pc' = [pc EXCEPT ![c] = "returned"]
    /\ UNCHANGED <<credentials, stored, thrown, tokenCalls, attempts,
                   lastAttemptAt>>

\* A catch branch that drops the credentials before throwing.
OnRefreshFailure_DropsCredentials(c) ==
    /\ credentials' = [access_token |-> 0, expiry_date |-> NoExpiry]
    /\ thrown' = [thrown EXCEPT ![c] = resp[c].kind]
    /\ pc' = [pc EXCEPT ![c] = "threw"]
    /\ UNCHANGED <<stored, tokenCalls, attempts, consentLaunches,
                   lastAttemptAt>>

\* catch branch: console.error(...); throw error. The caught error is thrown
\* again as it is, whatever its kind; no retry, no authenticate().
OnRefreshFailure(c) ==
    /\ thrown' = [thrown EXCEPT ![c] = resp[c].kind]
    /\ pc' = [pc EXCEPT ![c] = "threw"]
    /\ UNCHANGED <<credentials, stored, tokenCalls, attempts, consentLaunches,
                   lastAttemptAt>>

\* refreshTokenIfNeeded after the await.
refreshTokenResumes(c) ==
    /\ pc[c] = "resumed"
    /\ IF resp[c].kind = "ok" THEN OnRefreshSuccess(c) ELSE OnRefreshFailure(c)
    /\ UNCHANGED <<now, tool, resp, lastCall, toolResult>>
    /\ UNCHANGED exceptAuth

--------------------------------------------------------------------------
(* The tool handlers (server.tool(...)) and the facade call each makes.    *)

\* Handlers whose body is wrapped in try { ... } catch (error) { isError }.
GuardedTools == {"send_email", "search_emails", "read_email"}
\* Handlers that await the mail API with no try/catch around it.
UnguardedTools == {"send_html_email", "manage_labels"}
Tools == GuardedTools \cup UnguardedTools

\* The mail API method a handler reaches first: through GmailClient.sendEmail,
\* searchEmails and getMessage, or directly (send_html_email, manage_labels).
FirstApiCall(t) ==
    CASE t = "send_email"      -> "messages.send"
      [] t = "search_emails"   -> "messages.list"
      [] t = "read_email"      -> "messages.get"
      [] t = "send_html_email" -> "messages.send"
      [] t = "manage_labels"   -> "messages.modify"

\* The tools that go through a GmailClient operation.
FacadeTools == {"send_email", "search_emails", "read_email"}

NoCall == [op |-> "none", tool |-> "none",
           expired |-> FALSE, refreshAttempted |-> FALSE]

\* A handler is invoked and runs to its await of the mail API: the facade hands
\* this.auth (the credentials as they are) to the API client. Nothing on this
\* path calls refreshTokenIfNeeded.
ToolCall(c, t) ==
    /\ pc[c] = "idle"
    /\ tool' = [tool EXCEPT ![c] = t]
    /\ lastCall' = [op |-> FirstApiCall(t), tool |-> t,
                    expired |-> NeedsRefresh(credentials, now),
                    refreshAttempted |->
                        /\ lastAttemptAt # 0
                        /\ lastAttemptAt >= credentials.expiry_date]
    /\ pc' = [pc EXCEPT ![c] = "api"]
    /\ UNCHANGED <<now, credentials, stored, resp, thrown, attempts, tokenCalls,
                   consentLaunches, lastAttemptAt, toolResult>>
    /\ UNCHANGED exceptAuth

\* What a handler makes of the facade's promise: its value, or the catch
\* block's error payload, or (no try/catch) the rejection itself.
HandlerResult(t, ok) ==
    IF ok THEN "success"
    ELSE IF t \in GuardedTools THEN "error_payload" ELSE "uncaught"

\* The mail API settles the handler's call (for search_emails: the list call
\* and the detail fetches behind it, see SpecSearch).
ApiSettles(c, ok) ==
    /\ pc[c] = "api"
    /\ toolResult' = [toolResult EXCEPT ![c] = HandlerResult(tool[c], ok)]
    /\ pc' = [pc EXCEPT ![c] = "tooldone"]
    /\ UNCHANGED <<now, credentials, stored, tool, resp, thrown, attempts,
                   tokenCalls, consentLaunches, lastAttemptAt, lastCall>>
    /\ UNCHANGED exceptAuth

NoResp == [kind |-> "none", credentials |-> [access_token |-> 0, expiry_date |-> NoExpiry]]

\* The caller's call is over; it may start another.
Finish(c) ==
    /\ pc[c] \in {"returned", "threw", "tooldone"}
    /\ pc' = [pc EXCEPT ![c] = "idle"]
    /\ tool' = [tool EXCEPT ![c] = "none"]
    /\ resp' = [resp EXCEPT ![c] = NoResp]
    /\ thrown' = [thrown EXCEPT ![c] = "none"]
    /\ attempts' = [attempts EXCEPT ![c] = 0]
    /\ toolResult' = [toolResult EXCEPT ![c] = "none"]
    /\ UNCHANGED <<now, credentials, stored, tokenCalls, consentLaunches,
                   lastAttemptAt, lastCall>>
    /\ UNCHANGED exceptAuth

\* Time passes.
Tick ==
    /\ now < MaxTime
    /\ now' = now + 1
    /\ UNCHANGED <<credentials, stored, pc, tool, resp, thrown, attempts,
                   tokenCalls, consentLaunches, lastAttemptAt, lastCall,
                   toolResult>>
    /\ UNCHANGED exceptAuth

\* The credentials the OAuth2Client holds when the server starts serving: the
\* startup token (number 0) with any expiry, or none recorded.
InitAuth ==
    /\ now = 1
    /\ credentials \in [access_token : {0}, expiry_date : 0..MaxTime]
    /\ stored = credentials
    /\ pc = [c \in Callers |-> "idle"]
    /\ tool = [c \in Callers |-> "none"]
    /\ resp = [c \in Callers |-> NoResp]
    /\ thrown = [c \in Callers |-> "none"]
    /\ attempts = [c \in Callers |-> 0]
    /\ tokenCalls = 0
    /\ consentLaunches = 0
    /\ lastAttemptAt = 0
    /\ lastCall = NoCall
    /\ toolResult = [c \in Callers |-> "none"]

NextAuth ==
    \/ \E c \in Callers : refreshTokenIfNeeded(c)
    \/ \E c \in Callers, a \in EndpointAnswers : TokenEndpointAnswers(c, a)
    \/ \E c \in Callers : refreshTokenResumes(c)
    \/ \E c \in Callers, t \in Tools : ToolCall(c, t)
    \/ \E c \in Callers, ok \in BOOLEAN : ApiSettles(c, ok)
    \/ \E c \in Callers : Finish(c)
    \/ Tick

--------------------------------------------------------------------------
(* GmailClient.searchEmails, getMessage and extractHeader                  *)

MsgIds == 1..NumMessages

\* The thread a message belongs to (fixed by the mailbox).
ThreadOf(id) == id + 100

RECURSIVE NoRepeats(_)
NoRepeats(s) ==
    IF Len(s) <= 1 THEN TRUE
    ELSE /\ \A k \in 2..Len(s) : s[k] # s[1]
         /\ NoRepeats(Tail(s))

\* What messages.list can answer: any list of distinct ids, up to MaxList long
\* (an absent `messages` field reads as the empty list: `|| []`).
ListAnswers ==
    { s \in UNION { [1..n -> MsgIds] : n \in 0..MaxList } : NoRepeats(s) }

\* String.prototype.toLowerCase on the header names that occur.
toLowerCase(s) ==
    CASE s \in {"Subject", "SUBJECT", "subject"} -> "subject"
      [] s \in {"From", "FROM", "from"}          -> "from"
      [] s \in {"Date", "DATE", "date"}          -> "date"
      [] OTHER                                   -> s

Hdr(n, v) == [hasName |-> TRUE, name |-> n, value |-> v]
\* A header entry with no `name` property.
NamelessHdr(v) == [hasName |-> FALSE, name |-> "", value |-> v]

\* The message details messages.get can answer with (res.data).
DetailShapes ==
    { [snippet |-> "sn", hasPayload |-> FALSE, hasHeaders |-> FALSE,
       headers |-> <<>>],
      [snippet |-> "sn", hasPayload |-> TRUE, hasHeaders |-> FALSE,
       headers |-> <<>>],
      [snippet |-> "sn", hasPayload |-> TRUE, hasHeaders |-> TRUE,
       headers |-> <<Hdr("Subject", "s"), Hdr("From", "f"), Hdr("Date", "d")>>],
      [snippet |-> "sn", hasPayload |-> TRUE, hasHeaders |-> TRUE,
       headers |-> <<Hdr("SUBJECT", "s1"), Hdr("subject", "s2"), Hdr("date", "")>>],
      [snippet |-> "sn", hasPayload |-> TRUE, hasHeaders |-> TRUE,
       headers |-> <<Hdr("Subject", "s"), NamelessHdr("x"), Hdr("From", "f")>>],
      [snippet |-> "sn", hasPayload |-> TRUE, hasHeaders |-> TRUE,
       headers |-> <<NamelessHdr("x"), Hdr("Subject", "s")>>] }

\* Array.prototype.find with (h) => h.name.toLowerCase() === wanted: the index
\* of the first match, 0 when there is none, -1 when an entry without a name
\* is reached first (h.name.toLowerCase() throws a TypeError).
RECURSIVE FindHeader(_, _, _)
FindHeader(headers, k, wanted) ==
    IF k > Len(headers) THEN 0
    ELSE IF ~headers[k].hasName THEN -1
    ELSE IF toLowerCase(headers[k].name) = wanted THEN k
    ELSE FindHeader(headers, k + 1, wanted)

\* Whether extractHeader(message, headerName) throws.
extractHeaderThrows(message, headerName) ==
    /\ message.hasPayload /\ message.hasHeaders
    /\ FindHeader(message.headers, 1, toLowerCase(headerName)) = -1

\* extractHeader(message, headerName) when it does not throw:
\* message.payload?.headers?.find(...)?.value || ''.
extractHeader(message, headerName) ==
    IF ~(message.hasPayload /\ message.hasHeaders) THEN ""
    ELSE LET k == FindHeader(message.headers, 1, toLowerCase(headerName))
         IN  IF k > 0 THEN message.headers[k].value ELSE ""

\* The object a map callback returns for list entry msg and its details.
Shaped(id, details) ==
    [id |-> id, threadId |-> ThreadOf(id), snippet |-> details.snippet,
     subject |-> extractHeader(details, "Subject"),
     from |-> extractHeader(details, "From"),
     date |-> extractHeader(details, "Date")]

ShapingThrows(details) ==
    \E h \in {"Subject", "From", "Date"} : extractHeaderThrows(details, h)

Pending == [id |-> 0, threadId |-> 0, snippet |-> "", subject |-> "",
            from |-> "", date |-> ""]

\* Promise.all's value: the callbacks' values by position in the input array.
PromiseAllValues_ByCompletion(res, order) ==
    [k \in 1..Len(order) |-> res[order[k]]]

PromiseAllValues(res, order) ==
    [k \in 1..Len(order) |-> res[k]]

\* searchEmails is invoked: messages.list is called and awaited.
searchEmails ==
    /\ sPc = "idle"
    /\ listCalls' = listCalls + 1
    /\ sPc' = "listing"
    /\ UNCHANGED <<listed, results, done, completionOrder, messages, sThrown,
                   getCalls>>
    /\ UNCHANGED exceptSearch

\* A fan-out that fetches the first listed message only.
DetailFetches_FirstOnly(ms) ==
    IF Len(ms) = 0 THEN <<>> ELSE <<ms[1]>>

\* The ids the map callbacks call getMessage with: one call per entry of the
\* list, in the list's order.
DetailFetches(ms) == [k \in 1..Len(ms) |-> ms[k]]

\* The list call answers with ms: every map callback starts at once and calls
\* getMessage (messages.get) for its entry; Promise.all of no promises resolves.
ListResolves(ms) ==
    /\ sPc = "listing"
    /\ listed' = ms
    /\ getCalls' = DetailFetches(ms)
    /\ results' = [k \in 1..Len(ms) |-> Pending]
    /\ IF Len(ms) = 0
       THEN sPc' = "returned" /\ messages' = <<>>
       ELSE sPc' = "fetching" /\ UNCHANGED messages
    /\ UNCHANGED <<done, completionOrder, sThrown, listCalls>>
    /\ UNCHANGED exceptSearch

\* The list call fails: the rejection leaves searchEmails as it is.
ListRejects ==
    /\ sPc = "listing"
    /\ sThrown' = "api_error"
    /\ sPc' = "threw"
    /\ UNCHANGED <<listed, results, done, completionOrder, messages, listCalls,
                   getCalls>>
    /\ UNCHANGED exceptSearch

\* The fetch of entry k answers: its callback shapes the result (or throws in
\* extractHeader, which rejects Promise.all); when it was the last one pending,
\* Promise.all resolves and searchEmails returns.
GetResolves(k, details) ==
    /\ sPc = "fetching"
    /\ k \in (1..Len(listed)) \ done
    /\ IF ShapingThrows(details)
       THEN /\ sThrown' = "TypeError"
            /\ sPc' = "threw"
            /\ UNCHANGED <<results, done, completionOrder, messages>>
       ELSE /\ results' = [results EXCEPT ![k] = Shaped(listed[k], details)]
            /\ done' = done \cup {k}
            /\ completionOrder' = Append(completionOrder, k)
            /\ IF done' = 1..Len(listed)
               THEN /\ messages' = PromiseAllValues(results', completionOrder')
                    /\ sPc' = "returned"
               ELSE UNCHANGED <<messages, sPc>>
            /\ UNCHANGED sThrown
    /\ UNCHANGED <<listed, listCalls, getCalls>>
    /\ UNCHANGED exceptSearch

\* The fetch of entry k fails: Promise.all rejects and searchEmails throws.
GetRejects(k) ==
    /\ sPc = "fetching"
    /\ k \in (1..Len(listed)) \ done
    /\ sThrown' = "api_error"
    /\ sPc' = "threw"
    /\ UNCHANGED <<listed, results, done, completionOrder, messages, listCalls,
                   getCalls>>
    /\ UNCHANGED exceptSearch

\* The invocation is over; the next one starts afresh.
FinishSearch ==
    /\ sPc \in {"returned", "threw"}
    /\ sPc' = "idle"
    /\ listed' = <<>>
    /\ results' = <<>>
    /\ done' = {}
    /\ completionOrder' = <<>>
    /\ messages' = <<>>
    /\ sThrown' = "none"
    /\ listCalls' = 0
    /\ getCalls' = <<>>
    /\ UNCHANGED exceptSearch

InitSearch ==
    /\ sPc = "idle"
    /\ listed = <<>>
    /\ results = <<>>
    /\ done = {}
    /\ completionOrder = <<>>
    /\ messages = <<>>
    /\ sThrown = "none"
    /\ listCalls = 0
    /\ getCalls = <<>>

NextSearch ==
    \/ searchEmails
    \/ \E ms \in ListAnswers : ListResolves(ms)
    \/ ListRejects
    \/ \E k \in 1..MaxList, d \in DetailShapes : GetResolves(k, d)
    \/ \E k \in 1..MaxList : GetRejects(k)
    \/ FinishSearch


--------------------------------------------------------------------------
(* GmailClient.getMessage, called on its own (the read_email tool)         *)

NoDetail == [snippet |-> "", hasPayload |-> FALSE, hasHeaders |-> FALSE,
             headers |-> <<>>]

\* getMessage up to its await: one messages.get for the given id.
getMessage(id) ==
    /\ gPc = "idle"
    /\ gId' = id
    /\ gCalls' = Append(gCalls, id)
    /\ gPc' = "getting"
    /\ UNCHANGED <<gData, gThrown>>
    /\ UNCHANGED exceptGet

\* messages.get answers: getMessage returns res.data as it is.
GetMessageResolves(details) ==
    /\ gPc = "getting"
    /\ gData' = details
    /\ gPc' = "returned"
    /\ UNCHANGED <<gId, gCalls, gThrown>>
    /\ UNCHANGED exceptGet

\* messages.get fails: the rejection leaves getMessage as it is.
GetMessageRejects ==
    /\ gPc = "getting"
    /\ gThrown' = "api_error"
    /\ gPc' = "threw"
    /\ UNCHANGED <<gId, gCalls, gData>>
    /\ UNCHANGED exceptGet

\* The invocation is over; the next one starts afresh.
FinishGet ==
    /\ gPc \in {"returned", "threw"}
    /\ gPc' = "idle"
    /\ gId' = 0
    /\ gCalls' = <<>>
    /\ gData' = NoDetail
    /\ gThrown' = "none"
    /\ UNCHANGED exceptGet

InitGet ==
    /\ gPc = "idle"
    /\ gId = 0
    /\ gCalls = <<>>
    /\ gData = NoDetail
    /\ gThrown = "none"

--------------------------------------------------------------------------
(* GmailClient.sendEmail                                                   *)
(* Strings are sequences of code points; Buffer.from(email) is their UTF-8 *)
(* encoding and toString('base64url') the unpadded URL-safe base64 of the  *)
(* bytes, written here as the sequence of its 6-bit digits (digit d stands *)
(* for the d-th character of A-Z a-z 0-9 - _).                             *)

CRLF == <<13, 10>>

RECURSIVE Concat(_)
\* The concatenation of a sequence of strings.
Concat(ss) ==
    IF Len(ss) = 0 THEN <<>>
    ELSE IF Len(ss) = 1 THEN ss[1]
    ELSE LET h == Len(ss) \div 2
         IN  Concat(SubSeq(ss, 1, h)) \o Concat(SubSeq(ss, h + 1, Len(ss)))

RECURSIVE join(_, _)
\* Array.prototype.join(sep).
join(ss, sep) ==
    IF ss = <<>> THEN <<>>
    ELSE IF Len(ss) = 1 THEN ss[1]
    ELSE ss[1] \o sep \o join(Tail(ss), sep)

\* Buffer.from(string): the UTF-8 bytes of each code point, one byte below
\* U+0080, two below U+0800.
Utf8Encode(str) ==
    Concat([k \in 1..Len(str) |->
              IF str[k] < 128 THEN <<str[k]>>
              ELSE <<192 + (str[k] \div 64), 128 + (str[k] % 64)>>])

\* The receiving side's reading of the bytes as UTF-8: a byte of the form
\* 10xxxxxx continues the code point the byte before it began.
Utf8Decode(bytes) ==
    LET starts == { p \in 1..Len(bytes) : bytes[p] < 128 \/ bytes[p] >= 192 }
        StartOf(k) == CHOOSE p \in starts :
                          Cardinality({q \in starts : q <= p}) = k
    IN  [k \in 1..Cardinality(starts) |->
            LET p == StartOf(k)
            IN  IF bytes[p] < 128 \/ p = Len(bytes) THEN bytes[p]
                ELSE (bytes[p] - 192) * 64 + (bytes[p + 1] - 128)]

\* toString('base64url'): every three bytes give four 6-bit digits; one or
\* two bytes left over give two or three digits; no padding is written.
Base64UrlEncode(b) ==
    LET n == Len(b)
        byte(i) == IF i <= n THEN b[i] ELSE 0
        digits == 4 * (n \div 3)
                  + (CASE n % 3 = 0 -> 0 [] n % 3 = 1 -> 2 [] n % 3 = 2 -> 3)
    IN  [j \in 1..digits |->
            LET g == (j - 1) \div 4
                b1 == byte(3 * g + 1)
                b2 == byte(3 * g + 2)
                b3 == byte(3 * g + 3)
            IN  CASE (j - 1) % 4 = 0 -> b1 \div 4
                  [] (j - 1) % 4 = 1 -> (b1 % 4) * 16 + (b2 \div 16)
                  [] (j - 1) % 4 = 2 -> (b2 % 16) * 4 + (b3 \div 64)
                  [] (j - 1) % 4 = 3 -> b3 % 64]

\* The receiving side's decoding: every four digits give three bytes; two or
\* three digits left over give one or two bytes.
Base64UrlDecode(d) ==
    LET m == Len(d)
        digit(i) == IF i <= m THEN d[i] ELSE 0
        bytes == 3 * (m \div 4)
                 + (CASE m % 4 = 0 -> 0 [] m % 4 = 1 -> 0
                      [] m % 4 = 2 -> 1 [] m % 4 = 3 -> 2)
    IN  [i \in 1..bytes |->
            LET g == (i - 1) \div 3
                d1 == digit(4 * g + 1)
                d2 == digit(4 * g + 2)
                d3 == digit(4 * g + 3)
                d4 == digit(4 * g + 4)
            IN  CASE (i - 1) % 3 = 0 -> d1 * 4 + (d2 \div 16)
                  [] (i - 1) % 3 = 1 -> (d2 % 16) * 16 + (d3 \div 4)
                  [] (i - 1) % 3 = 2 -> (d3 % 4) * 64 + d4]

\* Header names as they are written into the message.
ToPrefix == <<84, 111, 58, 32>>                       \* "To: "
SubjectPrefix == <<83, 117, 98, 106, 101, 99, 116, 58, 32>>   \* "Subject: "
CcPrefix == <<67, 99, 58, 32>>                       \* "Cc: "
BccPrefix == <<66, 99, 99, 58, 32>>                  \* "Bcc: "
CommaSpace == <<44, 32>>                             \* ", "
\* "Content-Type: text/plain; charset=utf-8"
ContentTypeLine ==
    <<67, 111, 110, 116, 101, 110, 116, 45, 84, 121, 112, 101, 58, 32, 116, 101, 120, 116, 47, 112, 108, 97, 105, 110, 59, 32,
      99, 104, 97, 114, 115, 101, 116, 61, 117, 116, 102, 45, 56>>

\* An optional list parameter (cc?, bcc?): absent, or a list.
NoList == [given |-> FALSE, list |-> <<>>]
Given(l) == [given |-> TRUE, list |-> l]

\* messageParts, as sendEmail builds it.
messageParts(p) ==
    <<ToPrefix \o join(p.to, CommaSpace), SubjectPrefix \o p.subject>>
    \o (IF p.cc.given /\ Len(p.cc.list) # 0
        THEN <<CcPrefix \o join(p.cc.list, CommaSpace)>> ELSE <<>>)
    \o (IF p.bcc.given /\ Len(p.bcc.list) # 0
        THEN <<BccPrefix \o join(p.bcc.list, CommaSpace)>> ELSE <<>>)
    \o <<ContentTypeLine, <<>>, p.body>>

\* encodedEmail: Buffer.from(messageParts.join('\r\n')).toString('base64url').
encodedEmail(p) == Base64UrlEncode(Utf8Encode(join(messageParts(p), CRLF)))

\* The strings of code points from alphabet a, up to n long.
StringsUpTo(a, n) == UNION { [1..k -> a] : k \in 0..n }

\* The addresses a caller passes: "a", "b", "c".
Addresses == {<<97>>, <<98>>, <<99>>}
\* Subjects are written with "H" and the line-break characters CR and LF.
SubjectChars == {72, 13, 10}
\* Bodies are written with "x" and U+00E9 (two bytes in UTF-8).
BodyChars == {120, 233}

\* The recipient lists a caller passes: none, "a", or "a" and "b" ...
RecipientLists == { l \in StringsUpTo(Addresses, MaxRecipients) :
                      \A k \in 1..Len(l) : l[k] = <<96 + k>> }

\* cc and bcc: absent, empty, or one address.
OptionalLists == {NoList, Given(<<>>), Given(<<<<97>>>>)}

SendParams ==
    [to : RecipientLists,
     subject : StringsUpTo(SubjectChars, MaxSubjectLen),
     body : StringsUpTo(BodyChars, MaxBodyLen),
     cc : OptionalLists,
     bcc : {NoList, Given(<<<<98>>>>)}]

NoParams == [to |-> <<>>, subject |-> <<>>, body |-> <<>>, cc |-> NoList,
             bcc |-> NoList]

\* sendEmail(params) up to its await: the message is composed and encoded and
\* messages.send is called with it. No parameter is validated on the way.
sendEmail(p) ==
    /\ mPc = "idle"
    /\ params' = p
    /\ raw' = encodedEmail(p)
    /\ sendCalls' = sendCalls + 1
    /\ mPc' = "sending"
    /\ UNCHANGED mThrown
    /\ UNCHANGED exceptSend

\* messages.send answers: sendEmail returns res.data.id.
SendResolves ==
    /\ mPc = "sending"
    /\ mPc' = "returned"
    /\ UNCHANGED <<params, raw, sendCalls, mThrown>>
    /\ UNCHANGED exceptSend

\* messages.send fails: the rejection leaves sendEmail as it is.
SendRejects ==
    /\ mPc = "sending"
    /\ mThrown' = "api_error"
    /\ mPc' = "threw"
    /\ UNCHANGED <<params, raw, sendCalls>>
    /\ UNCHANGED exceptSend

\* The invocation is over; the next one starts afresh.
FinishSend ==
    /\ mPc \in {"returned", "threw"}
    /\ mPc' = "idle"
    /\ params' = NoParams
    /\ raw' = <<>>
    /\ sendCalls' = 0
    /\ mThrown' = "none"
    /\ UNCHANGED exceptSend

InitSend ==
    /\ mPc = "idle"
    /\ params = NoParams
    /\ raw = <<>>
    /\ sendCalls = 0
    /\ mThrown = "none"

NextSend ==
    \/ \E p \in SendParams : sendEmail(p)
    \/ SendResolves
    \/ SendRejects
    \/ FinishSend

--------------------------------------------------------------------------
(* The account registry: add, remove, setDefault over AccountInfo entries, *)
(* in memory, each mutation followed by its write to disk.                 *)

Emails == 1..NumEmails

\* An AccountInfo entry (addedAt and lastUsed play no part in the default).
Entry(e, d) == [email |-> e, isDefault |-> d]

Registered(acc) == { acc[k].email : k \in 1..Len(acc) }

\* The entries with every default flag cleared, then set on email e alone.
WithDefault_KeepPrior(acc, e) ==
    [k \in 1..Len(acc) |-> Entry(acc[k].email, acc[k].isDefault \/ acc[k].email = e)]

WithDefault(acc, e) ==
    [k \in 1..Len(acc) |-> Entry(acc[k].email, acc[k].email = e)]

\* The entries without the one for email e, order kept.
RECURSIVE Without(_, _)
Without(acc, e) ==
    IF acc = <<>> THEN <<>>
    ELSE IF Head(acc).email = e THEN Without(Tail(acc), e)
    ELSE <<Head(acc)>> \o Without(Tail(acc), e)

\* add(email, credential, markDefault): DuplicateAccountError when present;
\* the new entry is the default when asked for, or when it is the first.
add(e, markDefault) ==
    /\ rPc = "idle"
    /\ IF e \in Registered(accounts)
       THEN /\ rResult' = "DuplicateAccountError"
            /\ UNCHANGED <<accounts, rPc>>
       ELSE /\ accounts' =
                  IF markDefault \/ accounts = <<>>
                  THEN WithDefault(Append(accounts, Entry(e, TRUE)), e)
                  ELSE Append(accounts, Entry(e, FALSE))
            /\ rResult' = "added"
            /\ rPc' = "dirty"
    /\ UNCHANGED <<accountsFile, selection>>
    /\ UNCHANGED exceptReg

\* remove(email): NotFound when absent; removing the default leaves none.
remove(e) ==
    /\ rPc = "idle"
    /\ IF e \notin Registered(accounts)
       THEN /\ rResult' = "NotFound"
            /\ UNCHANGED <<accounts, rPc>>
       ELSE /\ accounts' = Without(accounts, e)
            /\ rResult' = "removed"
            /\ rPc' = "dirty"
    /\ UNCHANGED <<accountsFile, selection>>
    /\ UNCHANGED exceptReg

\* setDefault(email): NotFound when absent; otherwise the prior default is
\* cleared and the new one set in one in-memory step.
setDefault(e) ==
    /\ rPc = "idle"
    /\ IF e \notin Registered(accounts)
       THEN /\ rResult' = "NotFound"
            /\ UNCHANGED <<accounts, rPc>>
       ELSE /\ accounts' = WithDefault(accounts, e)
            /\ rResult' = "defaultSet"
            /\ rPc' = "dirty"
    /\ UNCHANGED <<accountsFile, selection>>
    /\ UNCHANGED exceptReg

\* The write that follows a mutation.
Persist ==
    /\ rPc = "dirty"
    /\ accountsFile' = accounts
    /\ rPc' = "idle"
    /\ UNCHANGED <<accounts, rResult, selection>>
    /\ UNCHANGED exceptReg

\* A tool call that names no account.
NoArg == 0

\* The emails of the entries flagged default.
DefaultEmails(acc) ==
    { acc[k].email : k \in { i \in 1..Len(acc) : acc[i].isDefault } }

NoSelection == [arg |-> NoArg, outcome |-> "none", email |-> NoArg]

\* A selector that falls back to the default when the named account is unknown.
Resolve_FallsBack(acc, arg) ==
    IF arg # NoArg /\ arg \in Registered(acc)
    THEN [arg |-> arg, outcome |-> "ok", email |-> arg]
    ELSE IF DefaultEmails(acc) # {}
    THEN [arg |-> arg, outcome |-> "ok",
          email |-> CHOOSE e \in DefaultEmails(acc) : TRUE]
    ELSE [arg |-> arg, outcome |-> "NoAccountSpecifiedError", email |-> NoArg]

\* The account selector: an explicit account if known (UnknownAccountError if
\* not), else the configured default, else NoAccountSpecifiedError.
Resolve(acc, arg) ==
    IF arg # NoArg
    THEN IF arg \in Registered(acc)
         THEN [arg |-> arg, outcome |-> "ok", email |-> arg]
         ELSE [arg |-> arg, outcome |-> "UnknownAccountError", email |-> NoArg]
    ELSE IF DefaultEmails(acc) # {}
    THEN [arg |-> arg, outcome |-> "ok",
          email |-> CHOOSE e \in DefaultEmails(acc) : TRUE]
    ELSE [arg |-> arg, outcome |-> "NoAccountSpecifiedError", email |-> NoArg]

\* A tool call resolves its account against the registry as it is in memory.
selectAccount(arg) ==
    /\ selection' = Resolve(accounts, arg)
    /\ UNCHANGED <<accounts, accountsFile, rPc, rResult>>
    /\ UNCHANGED exceptReg

InitReg ==
    /\ accounts = <<>>
    /\ accountsFile = <<>>
    /\ rPc = "idle"
    /\ rResult = "none"
    /\ selection = NoSelection

NextReg ==
    \/ \E e \in Emails, d \in BOOLEAN : add(e, d)
    \/ \E e \in Emails : remove(e)
    \/ \E e \in Emails : setDefault(e)
    \/ Persist
    \/ \E arg \in Emails \cup {NoArg} : selectAccount(arg)

--------------------------------------------------------------------------
(* The specifications. Each starts the other parts idle and never moves    *)
(* them.                                                                   *)

Init == InitAuth /\ InitSearch /\ InitGet /\ InitSend /\ InitReg

Spec == Init /\ [][NextAuth]_vars

\* The server at rest, no credential expiry recorded.
AuthAtRest == InitAuth /\ credentials.expiry_date = NoExpiry

InitAtRest == AuthAtRest /\ InitSearch /\ InitGet /\ InitSend /\ InitReg

SpecSearch == InitAtRest /\ [][NextSearch]_vars

SpecSend == InitAtRest /\ [][NextSend]_vars

SpecRegistry == InitAtRest /\ [][NextReg]_vars

\* The facade, followed one invocation at a time: a tool handler awaits the
\* facade operation it called before the next request is taken up.
FacadeIdle == mPc = "idle" /\ sPc = "idle" /\ gPc = "idle"

\* send_email: await client.sendEmail(params).
HandleSendEmail == FacadeIdle /\ \E p \in SendParams : sendEmail(p)

\* search_emails: await client.searchEmails(query, maxResults).
HandleSearchEmails == FacadeIdle /\ searchEmails

\* read_email: await client.getMessage(messageId).
HandleReadEmail == FacadeIdle /\ \E id \in MsgIds : getMessage(id)

NextFacade ==
    \/ HandleSendEmail
    \/ SendResolves
    \/ SendRejects
    \/ FinishSend
    \/ HandleSearchEmails
    \/ \E ms \in ListAnswers : ListResolves(ms)
    \/ ListRejects
    \/ \E k \in 1..MaxList, d \in DetailShapes : GetResolves(k, d)
    \/ \E k \in 1..MaxList : GetRejects(k)
    \/ FinishSearch
    \/ HandleReadEmail
    \/ \E d \in DetailShapes : GetMessageResolves(d)
    \/ GetMessageRejects
    \/ FinishGet

SpecFacade == InitAtRest /\ [][NextFacade]_vars

--------------------------------------------------------------------------
(* Properties of the refresh guard and the tool handlers (under Spec).     *)

\* C1: every GmailClient operation (sendEmail, searchEmails, getMessage) that
\* is invoked while the credential is expired is preceded by a refresh attempt:
\* an expired access token is never handed to the mail API directly.
C1_RefreshPrecedesMailCall ==
    (lastCall.tool \in FacadeTools /\ lastCall.expired)
        => lastCall.refreshAttempted

\* C2: two concurrent callers that both observe the expired token cause exactly
\* one refresh exchange: no two refreshAccessToken calls are in flight for the
\* account at once.
C2_SingleRefreshExchange ==
    \A c1, c2 \in Callers :
        (pc[c1] = "awaiting" /\ pc[c2] = "awaiting") => c1 = c2

C5_TransientFailureRetried ==
    \A c \in Callers :
        (pc[c] = "threw" /\ resp[c].kind \in TransientErrors)
            => attempts[c] = 3

\* C6: when the guard returns normally after a successful exchange, the
\* credentials hold the newly issued values, the access token is not expired,
\* and the updated credential has been persisted to the credential store.
C6_RefreshedAndPersisted ==
    [][\A c \in Callers :
          (pc[c] = "resumed" /\ pc'[c] = "returned")
              => /\ credentials' = resp[c].credentials
                 /\ now' < credentials'.expiry_date
                 /\ stored' = credentials']_vars

\* C9: every tool call ends in a success payload or a structured error
\* payload; no exception propagates past the tool boundary.
C9_NoExceptionPastBoundary ==
    \A c \in Callers :
        (/\ pc[c] = "tooldone"
         /\ tool[c] \in {"send_email", "search_emails", "read_email",
                         "manage_labels"})
            => toolResult[c] \in {"success", "error_payload"}

--------------------------------------------------------------------------
(* Properties of searchEmails (under SpecSearch).                          *)

\* C3: whatever order the detail fetches complete in, the messages returned
\* by searchEmails are as many as the list call's ids and in the same order:
\* the i-th result carries the i-th listed id.
C3_ResultsInListOrder ==
    sPc = "returned"
        => /\ Len(messages) = Len(listed)
           /\ \A k \in 1..Len(listed) : messages[k].id = listed[k]

\* The fetches of a three-id list completed last-listed first, and
\* searchEmails has returned.
C3_Witness ==
    /\ sPc = "returned"
    /\ listed = <<3, 1, 2>>
    /\ completionOrder = <<3, 2, 1>>

--------------------------------------------------------------------------
(* Properties of sendEmail (under SpecSend).                               *)

\* The message as the mail API reads it back from requestBody.raw.
DecodedMessage == Utf8Decode(Base64UrlDecode(raw))

\* The positions at which sub occurs in str.
Occurrences(str, sub) ==
    { k \in 1..(Len(str) - Len(sub) + 1) :
        SubSeq(str, k, k + Len(sub) - 1) = sub }

Min(S) == CHOOSE x \in S : \A y \in S : x <= y

\* The header block: what precedes the first blank line.
HeaderBlock(msg) ==
    LET blank == Occurrences(msg, CRLF \o CRLF)
    IN  IF blank = {} THEN msg ELSE SubSeq(msg, 1, Min(blank) - 1)

\* The body: what follows the first blank line.
BodyOf(msg) ==
    LET blank == Occurrences(msg, CRLF \o CRLF)
    IN  IF blank = {} THEN <<>> ELSE SubSeq(msg, Min(blank) + 4, Len(msg))

RECURSIVE LinesOf(_)
\* The lines of a header block, as a set.
LinesOf(block) ==
    LET brk == Occurrences(block, CRLF)
    IN  IF brk = {} THEN {block}
        ELSE {SubSeq(block, 1, Min(brk) - 1)}
             \cup LinesOf(SubSeq(block, Min(brk) + 2, Len(block)))

StartsWith(str, prefix) ==
    Len(str) >= Len(prefix) /\ SubSeq(str, 1, Len(prefix)) = prefix

\* C7: sendEmail called with an empty `to` list fails validation with
\* InvalidRecipientError and issues no messages.send call.
C7_EmptyToRejected ==
    (mPc # "idle" /\ params.to = <<>>)
        => /\ sendCalls = 0
           /\ mPc = "threw"
           /\ mThrown = "InvalidRecipientError"

\* C8: the message handed to the mail API decodes to a header block with the
\* line "To: <recipients joined with ', '>" and the line "Subject: <subject>",
\* a Cc / Bcc line exactly when that list is supplied and non-empty, then one
\* blank line, then a body that is exactly the given body.
C8_DecodedMessageAsComposed ==
    mPc # "idle"
        => LET hdrs == LinesOf(HeaderBlock(DecodedMessage))
           IN  /\ (ToPrefix \o join(params.to, CommaSpace)) \in hdrs
               /\ (SubjectPrefix \o params.subject) \in hdrs
               /\ (\E l \in hdrs : StartsWith(l, CcPrefix))
                      <=> (params.cc.given /\ params.cc.list # <<>>)
               /\ (\E l \in hdrs : StartsWith(l, BccPrefix))
                      <=> (params.bcc.given /\ params.bcc.list # <<>>)
               /\ BodyOf(DecodedMessage) = params.body

\* The same, for the calls whose subject holds no line break.
C8_HoldsWithoutLineBreaks ==
    (mPc # "idle" /\ \A k \in 1..Len(params.subject) :
                        params.subject[k] \notin {13, 10})
        => LET hdrs == LinesOf(HeaderBlock(DecodedMessage))
           IN  /\ (ToPrefix \o join(params.to, CommaSpace)) \in hdrs
               /\ (SubjectPrefix \o params.subject) \in hdrs
               /\ (\E l \in hdrs : StartsWith(l, CcPrefix))
                      <=> (params.cc.given /\ params.cc.list # <<>>)
               /\ (\E l \in hdrs : StartsWith(l, BccPrefix))
                      <=> (params.bcc.given /\ params.bcc.list # <<>>)
               /\ BodyOf(DecodedMessage) = params.body

--------------------------------------------------------------------------
(* Properties of the account registry (under SpecRegistry).                *)

Defaults(acc) == { k \in 1..Len(acc) : acc[k].isDefault }

\* C10: after any sequence of add, remove and setDefault at most one account
\* entry has isDefault = TRUE, in memory and on disk, also between a
\* setDefault swap and its write.
C10_AtMostOneDefault ==
    /\ Cardinality(Defaults(accounts)) <= 1
    /\ Cardinality(Defaults(accountsFile)) <= 1

\* setDefault has just moved the default from the first account to the
\* second; the write has not happened yet.
C10_Witness ==
    /\ rPc = "dirty"
    /\ rResult = "defaultSet"
    /\ Len(accounts) >= 2
    /\ Defaults(accounts) = {2}
    /\ Defaults(accountsFile) = {1}

\* C11: account selection follows a fixed order: an explicit account known to
\* the registry is used, an unknown one fails with UnknownAccountError (no
\* fallback to the default); with no argument the default's email is
\* returned, and NoAccountSpecifiedError when there is no default.
C11_SelectionOrder ==
    [][selection' # selection
         => LET a == selection'.arg
                known == a \in Registered(accounts)
                dflt == { accounts[k].email : k \in Defaults(accounts) }
            IN  /\ (a # NoArg /\ known)
                      => (selection'.outcome = "ok" /\ selection'.email = a)
                /\ (a # NoArg /\ ~known)
                      => selection'.outcome = "UnknownAccountError"
                /\ (a = NoArg /\ dflt # {})
                      => (selection'.outcome = "ok" /\ selection'.email \in dflt)
                /\ (a = NoArg /\ dflt = {})
                      => selection'.outcome = "NoAccountSpecifiedError"]_vars

\* An unknown account was named while a default was configured, and the
\* selection failed.
C11_Witness ==
    /\ selection.arg # NoArg
    /\ selection.arg \notin Registered(accounts)
    /\ Defaults(accounts) # {}
    /\ selection.outcome = "UnknownAccountError"


\* C12: the guard calls the refresh exchange exactly when the credential is
\* not known to be fresh: a pass of refreshTokenIfNeeded starts the exchange
\* unless a recorded expiry lies strictly after the current instant, so an
\* expiry equal to now is refreshed and so is a credential with no recorded
\* expiry.
C12_RefreshedUnlessKnownFresh ==
    [][\A c \in Callers :
         (pc[c] = "idle" /\ tool'[c] = "guard"
            /\ pc'[c] \in {"awaiting", "returned"})
         => (pc'[c] = "awaiting"
               <=> ~(credentials.expiry_date # NoExpiry
                       /\ now < credentials.expiry_date))]_vars


--------------------------------------------------------------------------
(* The facade's external calls (SpecFacade)                                *)

\* C13: every facade invocation issues exactly the calls of its operation:
\* sendEmail one messages.send, getMessage one messages.get for its id, and
\* searchEmails one messages.list followed, once the list has answered, by
\* one messages.get per listed id (none for an empty or absent list).
C13_OneCallPerOperation ==
    /\ mPc # "idle" => sendCalls = 1
    /\ gPc # "idle" => gCalls = <<gId>>
    /\ sPc # "idle" => listCalls = 1
    /\ sPc = "listing" => getCalls = <<>>
    /\ sPc \in {"fetching", "returned", "threw"} => getCalls = listed

\* A search over a list of several messages has returned.
C13_Witness ==
    /\ sPc = "returned"
    /\ Len(listed) >= 2
    /\ Len(getCalls) = Len(listed)


--------------------------------------------------------------------------
(* Shaping a fetched message (SpecSearch)                                  *)

\* C14: shaping a fetched message never faults: whatever detail a fetch
\* answers with (payload missing, headers missing, a header entry without a
\* name, the wanted header absent), the search does not end with the
\* TypeError of a failed header lookup.
C14_ShapingNeverFaults == sThrown # "TypeError"


--------------------------------------------------------------------------
(* The guard's effect on the credentials (Spec)                            *)

C16_FreshCredentialUntouched ==
    [][\A c \in Callers :
          (/\ pc[c] = "idle"
           /\ pc'[c] # "idle"
           /\ tool'[c] = "guard"
           /\ now < credentials.expiry_date)
             => /\ pc'[c] = "returned"
                /\ thrown'[c] = "none"
                /\ attempts'[c] = 0
                /\ tokenCalls' = tokenCalls
                /\ credentials' = credentials
                /\ stored' = stored]_vars

\* Every caller has called the guard on a fresh credential and returned, and
\* no exchange was ever made.
C16_Witness ==
    /\ now < credentials.expiry_date
    /\ tokenCalls = 0
    /\ \A c \in Callers :
          pc[c] = "returned" /\ tool[c] = "guard" /\ attempts[c] = 0

==========================================================================
